---- MODULE Spec2Model ----
(***************************************************************************)
(* Express-auth-api: the authenticated request pipeline (token extraction  *)
(* and verification, identity resolution, role gate, input validation,     *)
(* route handlers) over the account and product stores.                    *)
(*                                                                         *)
(* One request is a record that walks the stage list of its route; every   *)
(* database round trip (an await on the store) is one step, so storage     *)
(* changes made out of band and steps of other requests interleave between *)
(* the steps of a request exactly where the code suspends.                 *)
(***************************************************************************)
EXTENDS Integers, Sequences, FiniteSets, TLC

\* ------------------------------------------------------------------ bounds
MaxUsers == 2        \* accounts ever created (ids 1..MaxUsers)
MaxTime == 1         \* clock ticks
MaxLogouts == 2      \* logouts one client repeats
MaxOver == 2         \* requests one address sends beyond the limit within a window

\* config.rateLimit.max as configured by RATE_LIMIT_MAX_REQUESTS (100 when unset)
RateLimitMax == 6

\* max of authLimiter
AuthLimitMax == 5

\* config.jwt.expiresIn ('7d'), in clock ticks of seven days
ExpiresIn == 1

\* JS undefined / null
Undefined == [undefined |-> TRUE]

Roles == {"user", "admin"}
Envs == {"development", "production"}

\* ------------------------------------------------------------ pure helpers

\* String.prototype.toLowerCase on the e-mail addresses of the model
ToLowerCase(e) == IF e = "John@Example.com" THEN "john@example.com" ELSE e

\* bcrypt.hash: the stored form is the clear form behind a bcrypt prefix
Hash(p) == <<"$2a$12$">> \o p

\* bcrypt.compare(candidate, stored)
Compare(candidate, stored) == stored = Hash(candidate)

\* the clear form of a password string
Clear(pw) == <<pw>>

\* new AppError(message, statusCode, details)
AppError(message, statusCode, details) ==
  [ name |-> "Error",
    message |-> message,
    statusCode |-> statusCode,
    status |-> IF statusCode \in 400..499 THEN "fail" ELSE "error",
    isOperational |-> TRUE,
    details |-> details,
    code |-> 0,
    keyField |-> "" ]

\* the driver's duplicate-key error: no statusCode, no status, not operational
DuplicateKeyError(field) ==
  [ name |-> "MongoServerError",
    message |-> "E11000 duplicate key error",
    statusCode |-> 0,
    status |-> "",
    isOperational |-> FALSE,
    details |-> FALSE,
    code |-> 11000,
    keyField |-> field ]

\* mongoose's DocumentNotFoundError on saving a document that is gone
DocumentNotFoundError ==
  [ name |-> "DocumentNotFoundError",
    message |-> "No document found for query",
    statusCode |-> 0,
    status |-> "",
    isOperational |-> FALSE,
    details |-> FALSE,
    code |-> 0,
    keyField |-> "" ]

\* a rejection of the driver while a query is awaited: no statusCode, not operational
StorageError ==
  [ name |-> "MongoNetworkError",
    message |-> "connection 1 to 127.0.0.1:27017 closed",
    statusCode |-> 0,
    status |-> "",
    isOperational |-> FALSE,
    details |-> FALSE,
    code |-> 0,
    keyField |-> "" ]

handleDuplicateKeyError(err) ==
  AppError(IF err.keyField = "email" THEN "email already exists"
           ELSE "sku already exists", 400, FALSE)

handleJWTError == AppError("Invalid token. Please log in again.", 401, FALSE)

handleJWTExpiredError ==
  AppError("Your token has expired. Please log in again.", 401, FALSE)

\* res.status(..).json(..) of sendErrorDev: the error object and the stack go out
sendErrorDev(err) ==
  [ code |-> err.statusCode,
    status |-> err.status,
    message |-> err.message,
    details |-> err.details,
    stack |-> TRUE,
    token |-> Undefined,
    cookie |-> Undefined,
    user |-> Undefined ]

\* the slip of sending every error's own message in production
sendErrorProdLeaks(err) ==
  [ code |-> err.statusCode,
    status |-> err.status,
    message |-> err.message,
    details |-> err.details,
    stack |-> FALSE,
    token |-> Undefined,
    cookie |-> Undefined,
    user |-> Undefined ]

sendErrorProd(err) ==
  IF err.isOperational
  THEN [ code |-> err.statusCode,
         status |-> err.status,
         message |-> err.message,
         details |-> err.details,
         stack |-> FALSE,
         token |-> Undefined,
         cookie |-> Undefined,
         user |-> Undefined ]
  ELSE [ code |-> 500,
         status |-> "error",
         message |-> "Something went wrong!",
         details |-> FALSE,
         stack |-> FALSE,
         token |-> Undefined,
         cookie |-> Undefined,
         user |-> Undefined ]

\* config.isDevelopment
isDevelopment(e) == e = "development"

\* errorHandler(err, req, res, next)
errorHandler(err0, e) ==
  LET err == [err0 EXCEPT
                !.statusCode = IF err0.statusCode = 0 THEN 500 ELSE err0.statusCode,
                !.status = IF err0.status = "" THEN "error" ELSE err0.status]
      e1 == IF err.name = "MongoServerError" /\ err.code = 11000
            THEN handleDuplicateKeyError(err) ELSE err
      e2 == IF err.name = "JsonWebTokenError" THEN handleJWTError ELSE e1
      e3 == IF err.name = "TokenExpiredError" THEN handleJWTExpiredError ELSE e2
  IN IF isDevelopment(e) THEN sendErrorDev(err) ELSE sendErrorProd(e3)

\* ------------------------------------------------------------------ tokens

\* jwt.sign({id, role}, secret, {expiresIn}) at time t
Sign(u, t) == [id |-> u.id, role |-> u.role, exp |-> t + ExpiresIn, sig |-> "signed"]

\* a token an outsider makes up: any payload, but not the server's signature
ForgedTokens == {[id |-> 1, role |-> "admin", exp |-> MaxTime + ExpiresIn + 1, sig |-> "forged"]}

\* a cookie value that is no JWT at all, such as the 'none' logout writes
NoneCookie == [id |-> 0, role |-> "", exp |-> 0, sig |-> "malformed"]

\* the slip of decoding the token without verifying it (jwt.decode)
JwtDecodeOnly(token, t) ==
  IF token.sig = "malformed" THEN "JsonWebTokenError" ELSE ""

\* jwt.verify(token, secret): the error name, or "" with the payload decoded.
\* The library checks the shape, then the signature, then the expiry.
JwtVerifyError(token, t) ==
  IF token.sig = "malformed" THEN "JsonWebTokenError"
  ELSE IF token.sig # "signed" THEN "JsonWebTokenError"
  ELSE IF t >= token.exp THEN "TokenExpiredError"
  ELSE ""

\* the token protect reads from the request: headers.authorization is the
\* tuple of its space-separated words, <<>> when the header is absent
ExtractToken(hdr, cookie) ==
  IF hdr # <<>> /\ hdr[1] = "Bearer"
  THEN (IF Len(hdr) >= 2 THEN hdr[2] ELSE Undefined)
  ELSE IF cookie # Undefined THEN cookie
  ELSE Undefined

\* ------------------------------------------------------------------- store

\* User.findById(id): the document or null
FindById(us, id) ==
  IF \E u \in us : u.id = id THEN CHOOSE u \in us : u.id = id ELSE Undefined

\* the slip of selecting the password along (.select('+password'))
SelectKeepsPassword(u) == u

\* .select('-password')
SelectNoPassword(u) ==
  IF u = Undefined THEN Undefined
  ELSE [f \in DOMAIN u \ {"password"} |-> u[f]]

\* userSchema.methods.toJSON, which res.json applies to a document
toJSON(u) ==
  IF u = Undefined THEN Undefined
  ELSE [f \in DOMAIN u \ {"password"} |-> u[f]]

\* the slip of hashing on every save, the password modified or not
preSaveAlways(doc, modified) == [doc EXCEPT !.password = Hash(@)]

\* userSchema.pre('save'): the password is hashed only when it was modified
preSave(doc, modified) ==
  IF "password" \notin modified THEN doc
  ELSE [doc EXCEPT !.password = Hash(@)]

\* the slip of looking the address up as typed, without toLowerCase()
FindByEmailExact(us, email) ==
  IF \E u \in us : u.email = email
  THEN CHOOSE u \in us : u.email = email
  ELSE Undefined

\* User.findByEmail(email): findOne({ email: email.toLowerCase() })
FindByEmail(us, email) ==
  IF \E u \in us : u.email = ToLowerCase(email)
  THEN CHOOSE u \in us : u.email = ToLowerCase(email)
  ELSE Undefined

\* the slip of letting administrators through every gate
GateAdminAlways(roles, role) == role \in roles \/ role = "admin"

\* the slip of reading an empty declaration as "no restriction"
GateEmptyMeansAny(roles, role) == roles = {} \/ role \in roles

\* roles.includes(req.user.role) of the closure authorize(...roles) returns
GatePasses(roles, role) == role \in roles


\* ------------------------------------------------------------- validation

\* validator's isEmail on the addresses of the model
IsEmail(e) == e \in {"john@example.com", "John@Example.com", "jane@example.com"}

\* isLength({min: 6}) and /^(?=.*[a-z])(?=.*[A-Z])(?=.*\d)/ on the passwords of the model
IsStrongPassword(pw) == Len(pw) >= 6 /\ pw \in {"Password123"}

\* does the validation chain of the route leave validationResult(req) empty
BodyIsValid(route, body) ==
  CASE route = "register" ->
         Len(body.name) >= 2 /\ IsEmail(body.email) /\ IsStrongPassword(body.password)
    [] route = "login" -> IsEmail(body.email) /\ body.password # ""
    [] route = "createProduct" ->
         /\ body.name # "" /\ body.description # ""
         /\ body.price >= 0
         /\ body.category \in {"electronics", "clothing", "food", "books", "other"}
         /\ body.stock >= 0
         /\ body.sku # ""
    [] OTHER -> TRUE

\* ------------------------------------------------------------------ routes

AuthRoutes == {"register", "login", "me", "logout"}
AdminRoutes == {"createProduct", "updateProduct", "deleteProduct"}
Routes == AuthRoutes \cup AdminRoutes

\* the slip of mounting DELETE /:id above router.use(authorize('admin'))
StagesUngatedDelete(route) ==
  CASE route = "register" -> <<"validate", "register">>
    [] route = "login" -> <<"validate", "login">>
    [] route = "me" -> <<"protect", "getMe">>
    [] route = "logout" -> <<"protect", "logout">>
    [] route = "createProduct" -> <<"protect", "authorize", "validate", "createProduct">>
    [] route = "updateProduct" -> <<"protect", "authorize", "updateProduct">>
    [] route = "deleteProduct" -> <<"protect", "deleteProduct">>

\* the slip of validating the body of POST / before the router's protect
StagesValidateFirst(route) ==
  CASE route = "register" -> <<"validate", "register">>
    [] route = "login" -> <<"validate", "login">>
    [] route = "me" -> <<"protect", "getMe">>
    [] route = "logout" -> <<"protect", "logout">>
    [] route = "createProduct" -> <<"validate", "protect", "authorize", "createProduct">>
    [] route = "updateProduct" -> <<"protect", "authorize", "updateProduct">>
    [] route = "deleteProduct" -> <<"protect", "authorize", "deleteProduct">>

\* the public reads of the product router
ReadRoutes == {"getProducts", "searchProducts", "getProduct"}

\* the chain each route mounts, in mounting order, the handler last; a
\* request that matches no route of the product router still passes the
\* middleware the router mounts with router.use before it falls through
StagesOf(route) ==
  CASE route = "register" -> <<"validate", "register">>
    [] route = "getProducts" -> <<"getProducts">>
    [] route = "searchProducts" -> <<"searchProducts">>
    [] route = "getProduct" -> <<"getProduct">>
    [] route = "unmatched" -> <<"notFound">>
    [] route = "unmatchedProduct" -> <<"protect", "authorize", "notFound">>
    [] route = "login" -> <<"validate", "login">>
    [] route = "me" -> <<"protect", "getMe">>
    [] route = "logout" -> <<"protect", "logout">>
    [] route = "createProduct" -> <<"protect", "authorize", "validate", "createProduct">>
    [] route = "updateProduct" -> <<"protect", "authorize", "updateProduct">>
    [] route = "deleteProduct" -> <<"protect", "authorize", "deleteProduct">>

\* -------------------------------------------------------------------- state

\* the client addresses the limiter keys its counters by
Addresses == {"10.0.0.1", "10.0.0.2"}

\* req.ip of a connection: c1 and c2 come from one address, c3 from another
Addr(c) == IF c = "c3" THEN "10.0.0.2" ELSE "10.0.0.1"

\* a process that has loaded its configuration with every variable set
Running == [phase |-> "up", JWT_SECRET |-> "s3cret", MONGODB_URI |-> "mongodb://db/app"]

VARIABLES
  proc,       \* the process: its phase, and process.env apart from NODE_ENV
  hits,       \* the store of apiLimiter: requests counted per address in its window
  env,        \* process.env.NODE_ENV, read once by config
  gateRoles,  \* the roles captured by the authorize(...) gate of the product router
  now,        \* the clock
  users,      \* the accounts collection
  nextId,     \* the next account id the store hands out
  products,   \* the products collection
  nextPid,    \* the next product id
  issued,     \* every token signed so far (held by clients, not by the server)
  reqs        \* the requests, one per client connection

vars == <<proc, hits, env, gateRoles, now, users, nextId, products, nextPid, issued, reqs>>

IdleReq ==
  [ pc |-> "idle", route |-> "", hdr |-> <<>>, cookie |-> Undefined,
    body |-> Undefined, pid |-> 0, at |-> 0, step |-> 0, token |-> Undefined,
    user |-> Undefined, doc |-> Undefined, trace |-> <<>>, res |-> Undefined,
    err |-> Undefined,   \* the error handed to next(err), if any
    logouts |-> 0,       \* the logouts this client has completed before this request
    held |-> Undefined ] \* the token its latest completed logout was authenticated with

\* the stage a running request is about to enter
Stage(r) == IF r.pc = "run" THEN StagesOf(r.route)[r.at] ELSE ""

\* next(): on to the following stage
PassOn(r) == [r EXCEPT !.at = @ + 1, !.step = 0]

\* next(err): the chain is abandoned and errorHandler answers
Fail(r, err, e) ==
  [r EXCEPT !.pc = "done", !.res = errorHandler(err, e), !.err = err,
            !.user = Undefined, !.doc = Undefined]

\* res.status(code).json(..) of a handler
Respond(r, res) ==
  [r EXCEPT !.pc = "done", !.res = res, !.user = Undefined, !.doc = Undefined]

Success(code, message, user, token, cookie) ==
  [ code |-> code, status |-> "success", message |-> message, details |-> FALSE,
    stack |-> FALSE, token |-> token, cookie |-> cookie, user |-> user ]

\* ------------------------------------------------------------ request input

RegisterBodies ==
  { [name |-> "John Doe", email |-> e, password |-> "Password123"] :
      e \in {"john@example.com", "John@Example.com", "jane@example.com"} }
  \cup { [name |-> "J", email |-> "john@example.com", password |-> "Password123"],
         [name |-> "John Doe", email |-> "not-an-email", password |-> "Password123"],
         [name |-> "John Doe", email |-> "jane@example.com", password |-> "short"] }

LoginBodies ==
  { [email |-> e, password |-> p] :
      e \in {"john@example.com", "John@Example.com", "jane@example.com"},
      p \in {"Password123", "short"} }
  \cup { [email |-> "not-an-email", password |-> "Password123"],
         [email |-> "john@example.com", password |-> ""] }

ProductBodies ==
  { [name |-> "Lamp", description |-> "A lamp", price |-> p, category |-> "other",
     stock |-> 1, sku |-> "SKU-1"] : p \in {0 - 1, 5} }

PatchBodies == { [isActive |-> TRUE] }

BodiesOf(route) ==
  CASE route = "register" -> RegisterBodies
    [] route = "login" -> LoginBodies
    [] route = "createProduct" -> ProductBodies
    [] route = "updateProduct" -> PatchBodies
    [] OTHER -> {Undefined}

\* the unique index on sku admits one product per sku of the model
Skus == {"SKU-1"}

PidsOf(route) ==
  IF route \in {"updateProduct", "deleteProduct"} THEN 1..Cardinality(Skus) ELSE {0}

\* the tokens a client can put in a request: the ones the server signed, and forgeries
Presentable == issued \cup ForgedTokens

\* the public routes read neither; clients of the product routes and of logout
\* send the header alone, clients of /me send every combination
HeadersOf(route) ==
  IF route \in {"register", "login"} THEN {<<>>}
  ELSE IF route = "me"
  THEN {<<>>, <<"Basic", "dXNlcg==">>, <<"Bearer">>}
       \cup {<<"Bearer", t>> : t \in Presentable}
  ELSE {<<>>} \cup {<<"Bearer", t>> : t \in Presentable}

CookiesOf(route) ==
  IF route = "me" THEN {Undefined, NoneCookie} \cup Presentable ELSE {Undefined}

\* -------------------------------------------------------------- the actions

Init ==
  /\ proc = Running
  /\ hits = [a \in Addresses |-> 0]
  /\ env \in Envs
  /\ gateRoles = {"admin"}
  /\ now = 0
  /\ users = {}
  /\ nextId = 1
  /\ products = {}
  /\ nextPid = 1
  /\ issued = {}
  /\ reqs = [c \in {"c1"} |-> IdleReq]

\* a request arrives on a connection that has none in flight
Start(c, route) ==
  /\ reqs[c].pc \in {"idle", "done"}
  /\ route = "register" =>
       nextId + Cardinality({d \in DOMAIN reqs \ {c} :
                               reqs[d].pc = "run" /\ reqs[d].route = "register"}) <= MaxUsers
  /\ \E hdr \in HeadersOf(route), cookie \in CookiesOf(route),
        body \in BodiesOf(route), pid \in PidsOf(route) :
       /\ reqs' = [reqs EXCEPT ![c] =
                     [IdleReq EXCEPT !.pc = "run", !.route = route, !.hdr = hdr,
                        !.cookie = cookie, !.body = body, !.pid = pid, !.at = 1]]
  /\ UNCHANGED <<proc, hits, env, gateRoles, now, users, nextId, products, nextPid, issued>>

\* the answer of apiLimiter to a request over the limit
TooManyRequests ==
  [ code |-> 429, status |-> "error",
    message |-> "Too many requests from this IP, please try again later.",
    details |-> FALSE, stack |-> FALSE, token |-> Undefined, cookie |-> Undefined,
    user |-> Undefined ]

\* the bodies sent to the auth routes behind the limiter
LimitBodies(route) ==
  IF route = "register"
  THEN {[name |-> "John Doe", email |-> "john@example.com", password |-> "Password123"]}
  ELSE {[email |-> "john@example.com", password |-> "short"]}

\* the slip of keeping one counter for all addresses
LimiterKeyShared(c) == "10.0.0.1"

\* keyGenerator of the limiter: the address of the request
LimiterKey(c) == Addr(c)

\* a request to an /api route arrives: app.use('/api', apiLimiter) counts it
\* against its address and answers 429 once the count exceeds max, otherwise
\* the router takes it
Arrive(c, route) ==
  LET a == LimiterKey(c)
      n == hits[a] + 1
  IN /\ reqs[c].pc \in {"idle", "done"}
     /\ n <= RateLimitMax + MaxOver
     /\ hits' = [hits EXCEPT ![a] = n]
     /\ IF n > RateLimitMax
        THEN reqs' = [reqs EXCEPT ![c] =
                        Respond([IdleReq EXCEPT !.route = route], TooManyRequests)]
        ELSE \E body \in LimitBodies(route) :
               reqs' = [reqs EXCEPT ![c] =
                          [IdleReq EXCEPT !.pc = "run", !.route = route,
                                          !.body = body, !.at = 1]]
     /\ UNCHANGED <<proc, env, gateRoles, now, users, nextId, products, nextPid, issued>>

\* the window of an address has elapsed: the store drops its counter
WindowElapses(a) ==
  /\ hits[a] > 0
  /\ hits' = [hits EXCEPT ![a] = 0]
  /\ UNCHANGED <<proc, env, gateRoles, now, users, nextId, products, nextPid, issued, reqs>>

\* the same client sends its next request: it repeats its Authorization
\* header or puts the token it was just given there, and its cookie jar holds
\* what the last response set (the 'none' placeholder lives ten seconds, so
\* it may be gone already)
Again(c, route) ==
  LET p == reqs[c]
      loggedOut == p.route = "logout" /\ p.res.code = 200
      hdrs == {p.hdr} \cup (IF p.res.token # Undefined
                             THEN {<<"Bearer", p.res.token>>} ELSE {})
      jar == IF p.res.cookie = Undefined THEN {p.cookie}
             ELSE IF p.res.cookie = NoneCookie THEN {NoneCookie, Undefined}
             ELSE {p.res.cookie}
      n == IF loggedOut THEN p.logouts + 1 ELSE p.logouts
  IN /\ p.pc = "done"
     /\ n <= MaxLogouts
     /\ \E hdr \in hdrs, cookie \in jar :
          reqs' = [reqs EXCEPT ![c] =
                     [IdleReq EXCEPT !.pc = "run", !.route = route, !.hdr = hdr,
                        !.cookie = cookie, !.at = 1, !.logouts = n,
                        !.held = IF loggedOut THEN p.token ELSE p.held]]
     /\ UNCHANGED <<proc, hits, env, gateRoles, now, users, nextId, products, nextPid, issued>>

\* the slip of refusing a client that has logged out (a server-side blocklist)
ProtectResultRevoked(r0, us, t, e) ==
  LET token == ExtractToken(r0.hdr, r0.cookie)
      r == [r0 EXCEPT !.trace = Append(@, "protect"), !.token = token]
      unauthorized == AppError("Not authorized to access this route", 401, FALSE)
  IN IF token = Undefined THEN Fail(r, unauthorized, e)
     ELSE IF JwtVerifyError(token, t) # "" \/ r0.held = token THEN Fail(r, unauthorized, e)
     ELSE LET u == SelectNoPassword(FindById(us, token.id))
              r1 == [r EXCEPT !.user = u]
          IN IF u = Undefined
             THEN Fail(r1, AppError("User no longer exists", 401, FALSE), e)
             ELSE IF ~u.isActive
             THEN Fail(r1, AppError("User account is inactive", 401, FALSE), e)
             ELSE PassOn(r1)

\* protect
ProtectResult(r0, us, t, e) ==
  LET token == ExtractToken(r0.hdr, r0.cookie)
      r == [r0 EXCEPT !.trace = Append(@, "protect"), !.token = token]
      unauthorized == AppError("Not authorized to access this route", 401, FALSE)
  IN IF token = Undefined THEN Fail(r, unauthorized, e)
     ELSE IF JwtVerifyError(token, t) # "" THEN Fail(r, unauthorized, e)
     ELSE LET u == SelectNoPassword(FindById(us, token.id))
              r1 == [r EXCEPT !.user = u]
          IN IF u = Undefined
             THEN Fail(r1, AppError("User no longer exists", 401, FALSE), e)
             ELSE IF ~u.isActive
             THEN Fail(r1, AppError("User account is inactive", 401, FALSE), e)
             ELSE PassOn(r1)

Protect(c) ==
  /\ Stage(reqs[c]) = "protect"
  /\ reqs' = [reqs EXCEPT ![c] = ProtectResult(reqs[c], users, now, env)]
  /\ UNCHANGED <<proc, hits, env, gateRoles, now, users, nextId, products, nextPid, issued>>

RoleMessage(role) ==
  IF role = "user" THEN "User role 'user' is not authorized to access this route"
  ELSE "User role 'admin' is not authorized to access this route"

\* protect when User.findById rejects: the await sits inside protect's try
\* block, whose catch answers every exception alike
ProtectFault(c) ==
  LET r0 == reqs[c]
      token == ExtractToken(r0.hdr, r0.cookie)
      r == [r0 EXCEPT !.trace = Append(@, "protect"), !.token = token]
  IN /\ Stage(r0) = "protect"
     /\ token # Undefined /\ JwtVerifyError(token, now) = ""
     /\ reqs' = [reqs EXCEPT ![c] =
                   Fail(r, AppError("Not authorized to access this route", 401, FALSE), env)]
     /\ UNCHANGED <<proc, hits, env, gateRoles, now, users, nextId, products, nextPid, issued>>

\* a handler whose awaited query rejects: asyncHandler's catch hands the
\* driver's error to next
HandlerFault(c) ==
  LET r0 == reqs[c]
      r == IF r0.step = 0 THEN [r0 EXCEPT !.trace = Append(@, Stage(r0))] ELSE r0
  IN /\ Stage(r0) \in {"register", "getMe"}
     /\ reqs' = [reqs EXCEPT ![c] = Fail(r, StorageError, env)]
     /\ UNCHANGED <<proc, hits, env, gateRoles, now, users, nextId, products, nextPid, issued>>

\* the slip of gating on the role embedded in the token
AuthorizeByTokenRole(r0, roles, e) ==
  LET r == [r0 EXCEPT !.trace = Append(@, "authorize")]
  IN IF ~GatePasses(roles, r.token.role)
     THEN Fail(r, AppError(RoleMessage(r.token.role), 403, FALSE), e)
     ELSE PassOn(r)

\* the middleware authorize(...roles) returns
AuthorizeResult(r0, roles, e) ==
  LET r == [r0 EXCEPT !.trace = Append(@, "authorize")]
  IN IF ~GatePasses(roles, r.user.role)
     THEN Fail(r, AppError(RoleMessage(r.user.role), 403, FALSE), e)
     ELSE PassOn(r)

Authorize(c) ==
  /\ Stage(reqs[c]) = "authorize"
  /\ reqs' = [reqs EXCEPT ![c] = AuthorizeResult(reqs[c], gateRoles, env)]
  /\ UNCHANGED <<proc, hits, env, gateRoles, now, users, nextId, products, nextPid, issued>>

\* validate, after the route's validation chain has run
ValidateResult(r0, e) ==
  LET r == [r0 EXCEPT !.trace = Append(@, "validate")]
  IN IF ~BodyIsValid(r.route, r.body)
     THEN Fail(r, AppError("Validation failed", 400, TRUE), e)
     ELSE PassOn(r)

Validate(c) ==
  /\ Stage(reqs[c]) = "validate"
  /\ reqs' = [reqs EXCEPT ![c] = ValidateResult(reqs[c], env)]
  /\ UNCHANGED <<proc, hits, env, gateRoles, now, users, nextId, products, nextPid, issued>>


\* users with the document of id `id` replaced by d
ReplaceUser(us, d) == {u \in us : u.id # d.id} \cup {d}

\* register, up to its first await: User.findByEmail(email)
RegisterFind(c) ==
  LET r0 == reqs[c]
      r == [r0 EXCEPT !.trace = Append(@, "register")]
      existingUser == FindByEmail(users, r.body.email)
  IN /\ Stage(r0) = "register" /\ r0.step = 0
     /\ reqs' = [reqs EXCEPT ![c] =
                   IF existingUser # Undefined
                   THEN Fail(r, AppError("User already exists with this email", 400, FALSE), env)
                   ELSE [r EXCEPT !.step = 1]]
     /\ UNCHANGED <<proc, hits, env, gateRoles, now, users, nextId, products, nextPid, issued>>

\* the document User.create({name, email, password}) stores: the schema
\* the slip of handing the whole body to the model (User.create(req.body))
NewUserSpreadsBody(id, body) ==
  preSave([ id |-> id, email |-> ToLowerCase(body.email),
            password |-> Clear(body.password),
            role |-> IF "role" \in DOMAIN body THEN body.role ELSE "user",
            isActive |-> IF "isActive" \in DOMAIN body THEN body.isActive ELSE TRUE,
            lastLogin |-> <<>> ],
          {"email", "password"})

\* lower-cases the e-mail, defaults role and isActive, the pre-save hook hashes
NewUser(id, body) ==
  preSave([ id |-> id, email |-> ToLowerCase(body.email),
            password |-> Clear(body.password),
            role |-> "user", isActive |-> TRUE, lastLogin |-> <<>> ],
          {"email", "password"})

\* the unique index on email refuses a second document with the same value
EmailTaken(us, email) == \E u \in us : u.email = email

\* register, from User.create to the response
RegisterCreate(c) ==
  LET r == reqs[c]
      user == NewUser(nextId, r.body)
      token == Sign(user, now)
  IN /\ Stage(r) = "register" /\ r.step = 1
     /\ IF EmailTaken(users, user.email)
        THEN /\ reqs' = [reqs EXCEPT ![c] = Fail(r, DuplicateKeyError("email"), env)]
             /\ UNCHANGED <<users, nextId, issued>>
        ELSE /\ users' = users \cup {user}
             /\ nextId' = nextId + 1
             /\ issued' = issued \cup {token}
             /\ reqs' = [reqs EXCEPT ![c] =
                  Respond(r, Success(201, "", [id |-> user.id, email |-> user.email,
                                                role |-> user.role], token, token))]
     /\ UNCHANGED <<proc, hits, env, gateRoles, now, products, nextPid>>

\* the slip of stamping lastLogin as soon as the account is found
LoginFindStampsFirst(c) ==
  LET r0 == reqs[c]
      r == [r0 EXCEPT !.trace = Append(@, "login")]
      user == FindByEmail(users, r.body.email)
  IN /\ Stage(r0) = "login" /\ r0.step = 0
     /\ users' = IF user = Undefined THEN users
                 ELSE ReplaceUser(users, [user EXCEPT !.lastLogin = <<now>>])
     /\ reqs' = [reqs EXCEPT ![c] =
          IF user = Undefined
          THEN Fail(r, AppError("Invalid credentials", 401, FALSE), env)
          ELSE IF ~user.isActive
          THEN Fail(r, AppError("Account is inactive", 401, FALSE), env)
          ELSE IF ~Compare(Clear(r.body.password), user.password)
          THEN Fail(r, AppError("Invalid credentials", 401, FALSE), env)
          ELSE [r EXCEPT !.step = 1, !.doc = user]]
     /\ UNCHANGED <<proc, hits, env, gateRoles, now, nextId, products, nextPid, issued>>

\* login, up to user.save: the lookup with the password selected, the checks
LoginFind(c) ==
  LET r0 == reqs[c]
      r == [r0 EXCEPT !.trace = Append(@, "login")]
      user == FindByEmail(users, r.body.email)
  IN /\ Stage(r0) = "login" /\ r0.step = 0
     /\ reqs' = [reqs EXCEPT ![c] =
          IF r.body.email = "" \/ r.body.password = ""
          THEN Fail(r, AppError("Please provide email and password", 400, FALSE), env)
          ELSE IF user = Undefined
          THEN Fail(r, AppError("Invalid credentials", 401, FALSE), env)
          ELSE IF ~user.isActive
          THEN Fail(r, AppError("Account is inactive", 401, FALSE), env)
          ELSE IF ~Compare(Clear(r.body.password), user.password)
          THEN Fail(r, AppError("Invalid credentials", 401, FALSE), env)
          ELSE [r EXCEPT !.step = 1, !.doc = user]]
     /\ UNCHANGED <<proc, hits, env, gateRoles, now, users, nextId, products, nextPid, issued>>

\* the slip of writing the whole loaded document back
SaveWholeDocument(stored, loaded, doc, modified) == preSave(doc, modified)

\* document.save(): the pre-save hook runs on the loaded document, then the
\* paths that differ from what was loaded are written onto the stored document
Save(stored, loaded, doc, modified) ==
  LET d == preSave(doc, modified)
  IN [f \in DOMAIN stored |-> IF d[f] # loaded[f] \/ f \in modified THEN d[f] ELSE stored[f]]

\* the slip of answering login with the document as loaded
LoginSaveSendsDocument(c) ==
  LET r == reqs[c]
      stored == FindById(users, r.doc.id)
      token == Sign(r.doc, now)
  IN /\ Stage(r) = "login" /\ r.step = 1
     /\ IF stored = Undefined
        THEN /\ reqs' = [reqs EXCEPT ![c] = Fail(r, DocumentNotFoundError, env)]
             /\ UNCHANGED <<users, issued>>
        ELSE /\ users' = ReplaceUser(users,
                             Save(stored, r.doc, [r.doc EXCEPT !.lastLogin = <<now>>],
                                  {"lastLogin"}))
             /\ issued' = issued \cup {token}
             /\ reqs' = [reqs EXCEPT ![c] = Respond(r, Success(200, "", r.doc, token, token))]
     /\ UNCHANGED <<proc, hits, env, gateRoles, now, nextId, products, nextPid>>

\* login, from user.save to the response: lastLogin is the one modified path,
\* the token and the response come from the loaded document
LoginSave(c) ==
  LET r == reqs[c]
      stored == FindById(users, r.doc.id)
      token == Sign(r.doc, now)
  IN /\ Stage(r) = "login" /\ r.step = 1
     /\ IF stored = Undefined
        THEN /\ reqs' = [reqs EXCEPT ![c] = Fail(r, DocumentNotFoundError, env)]
             /\ UNCHANGED <<users, issued>>
        ELSE /\ users' = ReplaceUser(users,
                             Save(stored, r.doc, [r.doc EXCEPT !.lastLogin = <<now>>],
                                  {"lastLogin"}))
             /\ issued' = issued \cup {token}
             /\ reqs' = [reqs EXCEPT ![c] =
                  Respond(r, Success(200, "", [id |-> r.doc.id, email |-> r.doc.email,
                                                role |-> r.doc.role], token, token))]
     /\ UNCHANGED <<proc, hits, env, gateRoles, now, nextId, products, nextPid>>

\* getMe: User.findById(req.user.id), the password not selected
GetMe(c) ==
  LET r0 == reqs[c]
      r == [r0 EXCEPT !.trace = Append(@, "getMe")]
      user == SelectNoPassword(FindById(users, r.user.id))
  IN /\ Stage(r0) = "getMe"
     /\ reqs' = [reqs EXCEPT ![c] =
                   Respond(r, Success(200, "", toJSON(user), Undefined, Undefined))]
     /\ UNCHANGED <<proc, hits, env, gateRoles, now, users, nextId, products, nextPid, issued>>

\* logout: the cookie is overwritten with 'none'
Logout(c) ==
  LET r0 == reqs[c]
      r == [r0 EXCEPT !.trace = Append(@, "logout")]
  IN /\ Stage(r0) = "logout"
     /\ reqs' = [reqs EXCEPT ![c] =
                   Respond(r, Success(200, "Logged out successfully", Undefined,
                                      Undefined, NoneCookie))]
     /\ UNCHANGED <<proc, hits, env, gateRoles, now, users, nextId, products, nextPid, issued>>

\* Product.findById(id)
FindProduct(ps, id) ==
  IF \E p \in ps : p.id = id THEN CHOOSE p \in ps : p.id = id ELSE Undefined

\* Object.assign(product, body)
Assign(product, body) ==
  [f \in DOMAIN product |-> IF f \in DOMAIN body THEN body[f] ELSE product[f]]

\* createProduct: Product.create({...req.body, createdBy: req.user.id})
CreateProduct(c) ==
  LET r0 == reqs[c]
      r == [r0 EXCEPT !.trace = Append(@, "createProduct")]
      product == [ id |-> nextPid, sku |-> r.body.sku, name |-> r.body.name,
                   price |-> r.body.price, category |-> r.body.category,
                   stock |-> r.body.stock, isActive |-> TRUE,
                   createdBy |-> r.user.id ]
  IN /\ Stage(r0) = "createProduct"
     /\ IF \E p \in products : p.sku = product.sku
        THEN /\ reqs' = [reqs EXCEPT ![c] = Fail(r, DuplicateKeyError("sku"), env)]
             /\ UNCHANGED <<products, nextPid>>
        ELSE /\ products' = products \cup {product}
             /\ nextPid' = nextPid + 1
             /\ reqs' = [reqs EXCEPT ![c] =
                  Respond(r, Success(201, "", Undefined, Undefined, Undefined))]
     /\ UNCHANGED <<proc, hits, env, gateRoles, now, users, nextId, issued>>

\* updateProduct and deleteProduct, up to the save: Product.findById(req.params.id)
ProductFind(c) ==
  LET r0 == reqs[c]
      r == [r0 EXCEPT !.trace = Append(@, Stage(r0))]
      product == FindProduct(products, r.pid)
  IN /\ Stage(r0) \in {"updateProduct", "deleteProduct"} /\ r0.step = 0
     /\ reqs' = [reqs EXCEPT ![c] =
          IF product = Undefined
          THEN Fail(r, AppError("Product not found", 404, FALSE), env)
          ELSE [r EXCEPT !.step = 1, !.doc = product]]
     /\ UNCHANGED <<proc, hits, env, gateRoles, now, users, nextId, products, nextPid, issued>>

\* updateProduct, from Object.assign(product, req.body) and product.save()
UpdateProduct(c) ==
  LET r == reqs[c]
      stored == FindProduct(products, r.doc.id)
  IN /\ Stage(r) = "updateProduct" /\ r.step = 1
     /\ products' = (products \ {stored}) \cup {Assign(stored, r.body)}
     /\ reqs' = [reqs EXCEPT ![c] =
                   Respond(r, Success(200, "", Undefined, Undefined, Undefined))]
     /\ UNCHANGED <<proc, hits, env, gateRoles, now, users, nextId, nextPid, issued>>

\* deleteProduct, from product.isActive = false and product.save()
DeleteProduct(c) ==
  LET r == reqs[c]
      stored == FindProduct(products, r.doc.id)
  IN /\ Stage(r) = "deleteProduct" /\ r.step = 1
     /\ products' = (products \ {stored}) \cup {[stored EXCEPT !.isActive = FALSE]}
     /\ reqs' = [reqs EXCEPT ![c] =
                   Respond(r, Success(200, "Product deleted successfully", Undefined,
                                      Undefined, Undefined))]
     /\ UNCHANGED <<proc, hits, env, gateRoles, now, users, nextId, nextPid, issued>>

\* ------------------------------------------------ the public product reads

\* the numeric strings of the model and what parseInt and parseFloat make of them
Numeric == {"0", "1", "2", "3", "5"}

Num(str) ==
  CASE str = "0" -> 0 [] str = "1" -> 1 [] str = "2" -> 2 [] str = "3" -> 3 [] str = "5" -> 5

\* parseInt(str, 10) || dflt: NaN and 0 are falsy
ParseIntOr(str, dflt) ==
  IF str \in Numeric /\ Num(str) # 0 THEN Num(str) ELSE dflt

\* sortOption of buildQuery: sortFields[sort] || '-createdAt'. sortFields is
\* an object literal, so a key of Object.prototype finds an inherited function
SortOption(sort) ==
  CASE sort = "priceAsc" -> "price.amount"
    [] sort = "priceDesc" -> "-price.amount"
    [] sort = "nameAsc" -> "name"
    [] sort = "nameDesc" -> "-name"
    [] sort = "newest" -> "-createdAt"
    [] sort = "oldest" -> "createdAt"
    [] sort = "constructor" -> "[Function: Object]"
    [] OTHER -> "-createdAt"

\* filter of buildQuery: a condition is there when its parameter is truthy,
\* and every non-empty string is ("0" included)
buildQuery(query) ==
  [ isActive |-> {TRUE},
    category |-> query.category,
    gte |-> IF query.minPrice # "" THEN <<Num(query.minPrice)>> ELSE <<>>,
    lte |-> IF query.maxPrice # "" THEN <<Num(query.maxPrice)>> ELSE <<>>,
    stockGt |-> IF query.inStock = "true" THEN <<0>> ELSE <<>>,
    text |-> query.search ]

\* $text: { $search: term } on the names of the model
TextMatch(p, term) == p.name = term

\* does the document satisfy the filter
Matches(p, filter) ==
  /\ filter.text # "" => TextMatch(p, filter.text)
  /\ p.isActive \in filter.isActive
  /\ filter.category # "" => p.category = filter.category
  /\ filter.gte # <<>> => p.price >= filter.gte[1]
  /\ filter.lte # <<>> => p.price <= filter.lte[1]
  /\ filter.stockGt # <<>> => p.stock > filter.stockGt[1]

\* the collation order of the names of the model
NameRank(name) ==
  CASE name = "Atlas" -> 1 [] name = "Lamp" -> 2 [] name = "Novel" -> 3

\* the sort key of a document: createdAt grows with the id the store hands out
SortKey(p, sortOption) ==
  CASE sortOption = "price.amount" -> p.price
    [] sortOption = "-price.amount" -> 0 - p.price
    [] sortOption = "name" -> NameRank(p.name)
    [] sortOption = "-name" -> 0 - NameRank(p.name)
    [] sortOption = "createdAt" -> p.id
    [] sortOption = "-createdAt" -> 0 - p.id

\* .sort(sortOption) over the documents found: equal keys keep the order of
\* the collection
RECURSIVE Sorted(_, _)
Sorted(ps, sortOption) ==
  IF ps = {} THEN <<>>
  ELSE LET first == CHOOSE p \in ps : \A q \in ps :
                      \/ SortKey(p, sortOption) < SortKey(q, sortOption)
                      \/ SortKey(p, sortOption) = SortKey(q, sortOption) /\ p.id <= q.id
       IN <<first>> \o Sorted(ps \ {first}, sortOption)

\* the slip of counting the skip from the first item
SkipLimitOffByOne(list, skip, limit) ==
  SubSeq(list, skip + 2, IF skip + limit + 1 < Len(list) THEN skip + limit + 1 ELSE Len(list))

\* .skip(skip).limit(limit)
SkipLimit(list, skip, limit) ==
  SubSeq(list, skip + 1, IF skip + limit < Len(list) THEN skip + limit ELSE Len(list))

\* Math.ceil(total / limit)
Ceil(total, limit) == (total + limit - 1) \div limit

\* Query.sort given a function
SortTypeError ==
  [ name |-> "TypeError",
    message |-> "Invalid sort() argument. Must be a string, object, or array.",
    statusCode |-> 0,
    status |-> "",
    isOperational |-> FALSE,
    details |-> FALSE,
    code |-> 0,
    keyField |-> "" ]

\* the body of a list answer
ListResponse(list, page, limit, total) ==
  [ code |-> 200, status |-> "success", message |-> "", details |-> FALSE,
    stack |-> FALSE, token |-> Undefined, cookie |-> Undefined, user |-> Undefined,
    results |-> Len(list), page |-> page, limit |-> limit, total |-> total,
    pages |-> Ceil(total, limit), products |-> list ]

\* getProducts, up to its first await: Product.find(filter).sort().skip().limit()
GetProductsFind(c) ==
  LET r0 == reqs[c]
      r == [r0 EXCEPT !.trace = Append(@, "getProducts")]
      page == ParseIntOr(r.body.page, 1)
      limit == ParseIntOr(r.body.limit, 10)
      skip == (page - 1) * limit
      filter == buildQuery(r.body)
      sortOption == SortOption(r.body.sort)
  IN /\ Stage(r0) = "getProducts" /\ r0.step = 0
     /\ reqs' = [reqs EXCEPT ![c] =
          IF sortOption = "[Function: Object]"
          THEN Fail(r, SortTypeError, env)
          ELSE [r EXCEPT !.step = 1,
                         !.doc = [list |-> SkipLimit(
                                    Sorted({p \in products : Matches(p, filter)},
                                           sortOption), skip, limit)]]]
     /\ UNCHANGED <<proc, hits, env, gateRoles, now, users, nextId, products, nextPid, issued>>

\* getProducts, from Product.countDocuments(filter) to the response
GetProductsCount(c) ==
  LET r == reqs[c]
      page == ParseIntOr(r.body.page, 1)
      limit == ParseIntOr(r.body.limit, 10)
      total == Cardinality({p \in products : Matches(p, buildQuery(r.body))})
  IN /\ Stage(r) = "getProducts" /\ r.step = 1
     /\ reqs' = [reqs EXCEPT ![c] = Respond(r, ListResponse(r.doc.list, page, limit, total))]
     /\ UNCHANGED <<proc, hits, env, gateRoles, now, users, nextId, products, nextPid, issued>>

\* getProduct: Product.findById(req.params.id)
GetProduct(c) ==
  LET r0 == reqs[c]
      r == [r0 EXCEPT !.trace = Append(@, "getProduct")]
      product == FindProduct(products, r.pid)
  IN /\ Stage(r0) = "getProduct"
     /\ reqs' = [reqs EXCEPT ![c] =
          IF product = Undefined \/ ~product.isActive
          THEN Fail(r, AppError("Product not found", 404, FALSE), env)
          ELSE Respond(r, ListResponse(<<product>>, 1, 1, 1))]
     /\ UNCHANGED <<proc, hits, env, gateRoles, now, users, nextId, products, nextPid, issued>>

\* Product.searchProducts(q): the text match among the active products
SearchStatic(ps, term) == {p \in ps : TextMatch(p, term) /\ p.isActive}

\* searchProducts
SearchProducts(c) ==
  LET r0 == reqs[c]
      r == [r0 EXCEPT !.trace = Append(@, "searchProducts")]
      found == Sorted(SearchStatic(products, r.body.q), "createdAt")
  IN /\ Stage(r0) = "searchProducts"
     /\ reqs' = [reqs EXCEPT ![c] =
          IF r.body.q = ""
          THEN Respond(r, [ code |-> 400, status |-> "error",
                            message |-> "Search query is required", details |-> FALSE,
                            stack |-> FALSE, token |-> Undefined, cookie |-> Undefined,
                            user |-> Undefined ])
          ELSE Respond(r, ListResponse(found, 1, 1, Len(found)))]
     /\ UNCHANGED <<proc, hits, env, gateRoles, now, users, nextId, products, nextPid, issued>>

\* notFound: no route matched
NotFound(c) ==
  LET r0 == reqs[c]
      r == [r0 EXCEPT !.trace = Append(@, "notFound")]
  IN /\ Stage(r0) = "notFound"
     /\ reqs' = [reqs EXCEPT ![c] = Fail(r, AppError("Route <url> not found", 404, FALSE), env)]
     /\ UNCHANGED <<proc, hits, env, gateRoles, now, users, nextId, products, nextPid, issued>>

\* ---------------------------------------- the store, changed out of band

\* an operator changes the role tag of an account in the database
SetRole(id, role) ==
  /\ \E u \in users : u.id = id /\ u.role # role
  /\ users' = ReplaceUser(users, [FindById(users, id) EXCEPT !.role = role])
  /\ UNCHANGED <<proc, hits, env, gateRoles, now, nextId, products, nextPid, issued, reqs>>

\* an operator flips the active flag of an account in the database
SetActive(id, flag) ==
  /\ \E u \in users : u.id = id /\ u.isActive # flag
  /\ users' = ReplaceUser(users, [FindById(users, id) EXCEPT !.isActive = flag])
  /\ UNCHANGED <<proc, hits, env, gateRoles, now, nextId, products, nextPid, issued, reqs>>

\* an operator removes an account from the database
RemoveUser(id) ==
  /\ \E u \in users : u.id = id
  /\ users' = {u \in users : u.id # id}
  /\ UNCHANGED <<proc, hits, env, gateRoles, now, nextId, products, nextPid, issued, reqs>>

\* time passes
Tick ==
  /\ now < MaxTime
  /\ now' = now + 1
  /\ UNCHANGED <<proc, hits, env, gateRoles, users, nextId, products, nextPid, issued, reqs>>

\* the identity resolver at work: registration, GET /api/auth/me, the
\* store changed out of band, the clock
Next ==
  \/ \E c \in DOMAIN reqs, route \in {"register", "me"} : Start(c, route)
  \/ \E c \in DOMAIN reqs : Validate(c)
  \/ \E c \in DOMAIN reqs : RegisterFind(c)
  \/ \E c \in DOMAIN reqs : RegisterCreate(c)
  \/ \E c \in DOMAIN reqs : Protect(c)
  \/ \E c \in DOMAIN reqs : GetMe(c)
  \/ \E id \in 1..MaxUsers, role \in Roles : SetRole(id, role)
  \/ \E id \in 1..MaxUsers, flag \in BOOLEAN : SetActive(id, flag)
  \/ \E id \in 1..MaxUsers : RemoveUser(id)
  \/ Tick

Spec == Init /\ [][Next]_vars


\* every route of the two routers but login, the role tags changed out of band
NextRoutes ==
  \/ \E c \in DOMAIN reqs, route \in Routes \ {"login"} : Start(c, route)
  \/ \E c \in DOMAIN reqs : Validate(c)
  \/ \E c \in DOMAIN reqs : RegisterFind(c)
  \/ \E c \in DOMAIN reqs : RegisterCreate(c)
  \/ \E c \in DOMAIN reqs : Protect(c)
  \/ \E c \in DOMAIN reqs : Authorize(c)
  \/ \E c \in DOMAIN reqs : GetMe(c)
  \/ \E c \in DOMAIN reqs : Logout(c)
  \/ \E c \in DOMAIN reqs : CreateProduct(c)
  \/ \E c \in DOMAIN reqs : ProductFind(c)
  \/ \E c \in DOMAIN reqs : UpdateProduct(c)
  \/ \E c \in DOMAIN reqs : DeleteProduct(c)
  \/ \E id \in 1..MaxUsers, role \in Roles : SetRole(id, role)

SpecRoutes == Init /\ [][NextRoutes]_vars

\* the same routes behind a gate authorize(...R) for every declaration R
InitGate ==
  /\ proc = Running
  /\ hits = [a \in Addresses |-> 0]
  /\ env \in Envs
  /\ gateRoles \in SUBSET Roles
  /\ now = 0
  /\ users = {}
  /\ nextId = 1
  /\ products = {}
  /\ nextPid = 1
  /\ issued = {}
  /\ reqs = [c \in {"c1"} |-> IdleReq]

SpecGate == InitGate /\ [][NextRoutes]_vars

\* two connections registering at once
InitRace ==
  /\ proc = Running
  /\ hits = [a \in Addresses |-> 0]
  /\ env \in Envs
  /\ gateRoles = {"admin"}
  /\ now = 0
  /\ users = {}
  /\ nextId = 1
  /\ products = {}
  /\ nextPid = 1
  /\ issued = {}
  /\ reqs = [c \in {"c1", "c2"} |-> IdleReq]

NextRace ==
  \/ \E c \in DOMAIN reqs : Start(c, "register")
  \/ \E c \in DOMAIN reqs : Validate(c)
  \/ \E c \in DOMAIN reqs : RegisterFind(c)
  \/ \E c \in DOMAIN reqs : RegisterCreate(c)

SpecRace == InitRace /\ [][NextRace]_vars

\* registration and login, the accounts changed out of band, the clock
NextLogin ==
  \/ \E c \in DOMAIN reqs, route \in {"register", "login"} : Start(c, route)
  \/ \E c \in DOMAIN reqs : Validate(c)
  \/ \E c \in DOMAIN reqs : RegisterFind(c)
  \/ \E c \in DOMAIN reqs : RegisterCreate(c)
  \/ \E c \in DOMAIN reqs : LoginFind(c)
  \/ \E c \in DOMAIN reqs : LoginSave(c)
  \/ \E id \in 1..MaxUsers, role \in Roles : SetRole(id, role)
  \/ \E id \in 1..MaxUsers, flag \in BOOLEAN : SetActive(id, flag)
  \/ Tick

SpecLogin == Init /\ [][NextLogin]_vars

\* every route of the two routers, the role tags changed out of band
NextAll ==
  \/ \E c \in DOMAIN reqs, route \in Routes : Start(c, route)
  \/ \E c \in DOMAIN reqs : Validate(c)
  \/ \E c \in DOMAIN reqs : RegisterFind(c)
  \/ \E c \in DOMAIN reqs : RegisterCreate(c)
  \/ \E c \in DOMAIN reqs : LoginFind(c)
  \/ \E c \in DOMAIN reqs : LoginSave(c)
  \/ \E c \in DOMAIN reqs : Protect(c)
  \/ \E c \in DOMAIN reqs : Authorize(c)
  \/ \E c \in DOMAIN reqs : GetMe(c)
  \/ \E c \in DOMAIN reqs : Logout(c)
  \/ \E c \in DOMAIN reqs : CreateProduct(c)
  \/ \E c \in DOMAIN reqs : ProductFind(c)
  \/ \E c \in DOMAIN reqs : UpdateProduct(c)
  \/ \E c \in DOMAIN reqs : DeleteProduct(c)
  \/ \E id \in 1..MaxUsers, role \in Roles : SetRole(id, role)

SpecAll == Init /\ [][NextAll]_vars

\* clients that register, then call GET /me and POST /logout again and again
NextLogout ==
  \/ \E c \in DOMAIN reqs : Start(c, "register")
  \/ \E c \in DOMAIN reqs, route \in {"me", "logout"} : Again(c, route)
  \/ \E c \in DOMAIN reqs : Validate(c)
  \/ \E c \in DOMAIN reqs : RegisterFind(c)
  \/ \E c \in DOMAIN reqs : RegisterCreate(c)
  \/ \E c \in DOMAIN reqs : Protect(c)
  \/ \E c \in DOMAIN reqs : GetMe(c)
  \/ \E c \in DOMAIN reqs : Logout(c)
  \/ \E id \in 1..MaxUsers, flag \in BOOLEAN : SetActive(id, flag)
  \/ Tick

SpecLogout == Init /\ [][NextLogout]_vars

\* two connections on register and GET /me over a store whose queries can fail
NextFaults ==
  \/ \E c \in DOMAIN reqs, route \in {"register", "me"} : Start(c, route)
  \/ \E c \in DOMAIN reqs : Validate(c)
  \/ \E c \in DOMAIN reqs : RegisterFind(c)
  \/ \E c \in DOMAIN reqs : RegisterCreate(c)
  \/ \E c \in DOMAIN reqs : Protect(c)
  \/ \E c \in DOMAIN reqs : ProtectFault(c)
  \/ \E c \in DOMAIN reqs : GetMe(c)
  \/ \E c \in DOMAIN reqs : HandlerFault(c)

SpecFaults == InitRace /\ [][NextFaults]_vars

\* three connections from two addresses on the auth routes, behind the limiter
InitLimit ==
  /\ proc = Running
  /\ hits = [a \in Addresses |-> 0]
  /\ env \in Envs
  /\ gateRoles = {"admin"}
  /\ now = 0
  /\ users = {}
  /\ nextId = 1
  /\ products = {}
  /\ nextPid = 1
  /\ issued = {}
  /\ reqs = [c \in {"c1", "c2", "c3"} |-> IdleReq]

NextLimit ==
  \/ \E c \in DOMAIN reqs, route \in {"register", "login"} : Arrive(c, route)
  \/ \E a \in Addresses : WindowElapses(a)
  \/ \E c \in DOMAIN reqs : Validate(c)
  \/ \E c \in DOMAIN reqs : RegisterFind(c)
  \/ \E c \in DOMAIN reqs : RegisterCreate(c)
  \/ \E c \in DOMAIN reqs : LoginFind(c)

SpecLimit == InitLimit /\ [][NextLimit]_vars

\* the accounts of the catalogue: an administrator (made one in the database)
\* and a plain user
Admin ==
  [NewUser(1, [name |-> "John Doe", email |-> "john@example.com",
               password |-> "Password123"]) EXCEPT !.role = "admin"]

Member ==
  NewUser(2, [name |-> "Jane Doe", email |-> "jane@example.com",
              password |-> "Password123"])

\* the products the administrator has created, in the order of their creation
Catalog ==
  { [id |-> 1, sku |-> "SKU-1", name |-> "Lamp", price |-> 5, category |-> "other",
     stock |-> 1, isActive |-> TRUE, createdBy |-> 1],
    [id |-> 2, sku |-> "SKU-2", name |-> "Atlas", price |-> 0, category |-> "books",
     stock |-> 0, isActive |-> TRUE, createdBy |-> 1],
    [id |-> 3, sku |-> "SKU-3", name |-> "Novel", price |-> 5, category |-> "books",
     stock |-> 2, isActive |-> TRUE, createdBy |-> 1] }

\* req.query with nothing in it
NoQuery ==
  [ category |-> "", minPrice |-> "", maxPrice |-> "", inStock |-> "", search |-> "",
    sort |-> "", page |-> "", limit |-> "" ]

\* req.query of GET /api/products: the filters, the sort keys, the pages
Queries ==
  { [NoQuery EXCEPT !.category = cat, !.minPrice = lo, !.maxPrice = hi, !.inStock = st] :
      cat \in {"", "books"}, lo \in {"", "0", "5"}, hi \in {"", "0", "5"},
      st \in {"", "true", "false"} }
  \cup { [NoQuery EXCEPT !.search = "Lamp", !.category = cat] : cat \in {"", "books"} }
  \cup { [NoQuery EXCEPT !.sort = k, !.page = pg, !.limit = "2"] :
           k \in {"priceAsc", "priceDesc", "nameAsc", "nameDesc", "newest", "oldest",
                  "cheapest", "constructor"},
           pg \in {"", "2"} }
  \cup { [NoQuery EXCEPT !.page = pg, !.limit = lim, !.category = cat] :
           pg \in {"", "0", "abc", "1", "2", "3"}, lim \in {"", "0", "abc", "1", "2"},
           cat \in {"", "books"} }

\* req.query of GET /api/products/search
SearchQueries == { [q |-> term] : term \in {"", "Lamp", "Novel", "Desk"} }

\* the ids a client asks for: the products of the catalogue and one that is none
CatalogPids == 1..(Cardinality(Catalog) + 1)

\* the product router and the server started over the catalogue
InitCatalog ==
  /\ proc = Running
  /\ hits = [a \in Addresses |-> 0]
  /\ env \in Envs
  /\ gateRoles = {"admin"}
  /\ now = 0
  /\ users = {Admin, Member}
  /\ nextId = 3
  /\ products = Catalog
  /\ nextPid = Cardinality(Catalog) + 1
  /\ issued = {Sign(Admin, 0), Sign(Member, 0)}
  /\ reqs = [c \in {"c1"} |-> IdleReq]

\* a public read arrives
Read(c, route) ==
  /\ reqs[c].pc \in {"idle", "done"}
  /\ \E query \in (CASE route = "getProducts" -> Queries
                        [] route = "searchProducts" -> SearchQueries
                        [] route = "getProduct" -> {Undefined}),
        pid \in (IF route = "getProduct" THEN CatalogPids ELSE {0}) :
       reqs' = [reqs EXCEPT ![c] =
                  [IdleReq EXCEPT !.pc = "run", !.route = route, !.body = query,
                                  !.pid = pid, !.at = 1]]
  /\ UNCHANGED <<proc, hits, env, gateRoles, now, users, nextId, products, nextPid, issued>>

\* a request arrives that is for the product router, with or without a token
Administer(c, route) ==
  /\ reqs[c].pc \in {"idle", "done"}
  /\ \E hdr \in {<<>>} \cup {<<"Bearer", t>> : t \in issued},
        body \in BodiesOf(route), pid \in CatalogPids :
       reqs' = [reqs EXCEPT ![c] =
                  [IdleReq EXCEPT !.pc = "run", !.route = route, !.hdr = hdr,
                                  !.body = body, !.pid = pid, !.at = 1]]
  /\ UNCHANGED <<proc, hits, env, gateRoles, now, users, nextId, products, nextPid, issued>>

\* a client reading the catalogue, changing it, and asking for what no route serves
NextCatalog ==
  \/ \E c \in DOMAIN reqs, route \in ReadRoutes : Read(c, route)
  \/ \E c \in DOMAIN reqs,
        route \in {"updateProduct", "deleteProduct", "unmatched", "unmatchedProduct"} :
       Administer(c, route)
  \/ \E c \in DOMAIN reqs : GetProductsFind(c)
  \/ \E c \in DOMAIN reqs : GetProductsCount(c)
  \/ \E c \in DOMAIN reqs : GetProduct(c)
  \/ \E c \in DOMAIN reqs : SearchProducts(c)
  \/ \E c \in DOMAIN reqs : Protect(c)
  \/ \E c \in DOMAIN reqs : Authorize(c)
  \/ \E c \in DOMAIN reqs : ProductFind(c)
  \/ \E c \in DOMAIN reqs : UpdateProduct(c)
  \/ \E c \in DOMAIN reqs : DeleteProduct(c)
  \/ \E c \in DOMAIN reqs : NotFound(c)

SpecCatalog == InitCatalog /\ [][NextCatalog]_vars

\* register bodies that carry fields the handler does not read
EscalationBodies ==
  { [name |-> "Jane Doe", email |-> "jane@example.com", password |-> "Password123",
     role |-> role, isActive |-> active] : role \in Roles, active \in BOOLEAN }

\* POST /api/auth/register arrives with such a body
Escalate(c) ==
  /\ reqs[c].pc \in {"idle", "done"}
  /\ nextId <= MaxUsers
  /\ \E body \in EscalationBodies :
       reqs' = [reqs EXCEPT ![c] =
                  [IdleReq EXCEPT !.pc = "run", !.route = "register", !.body = body, !.at = 1]]
  /\ UNCHANGED <<proc, hits, env, gateRoles, now, users, nextId, products, nextPid, issued>>

\* the server with the one administrator the database was seeded with
InitPrivileges ==
  /\ proc = Running
  /\ hits = [a \in Addresses |-> 0]
  /\ env \in Envs
  /\ gateRoles = {"admin"}
  /\ now = 0
  /\ users = {Admin}
  /\ nextId = 2
  /\ products = {}
  /\ nextPid = 1
  /\ issued = {Sign(Admin, 0)}
  /\ reqs = [c \in {"c1"} |-> IdleReq]

\* every route of the API, and nothing but the API
NextPrivileges ==
  \/ \E c \in DOMAIN reqs, route \in Routes : Start(c, route)
  \/ \E c \in DOMAIN reqs : Escalate(c)
  \/ \E c \in DOMAIN reqs : Validate(c)
  \/ \E c \in DOMAIN reqs : RegisterFind(c)
  \/ \E c \in DOMAIN reqs : RegisterCreate(c)
  \/ \E c \in DOMAIN reqs : LoginFind(c)
  \/ \E c \in DOMAIN reqs : LoginSave(c)
  \/ \E c \in DOMAIN reqs : Protect(c)
  \/ \E c \in DOMAIN reqs : Authorize(c)
  \/ \E c \in DOMAIN reqs : GetMe(c)
  \/ \E c \in DOMAIN reqs : Logout(c)
  \/ \E c \in DOMAIN reqs : CreateProduct(c)
  \/ \E c \in DOMAIN reqs : ProductFind(c)
  \/ \E c \in DOMAIN reqs : UpdateProduct(c)
  \/ \E c \in DOMAIN reqs : DeleteProduct(c)

SpecPrivileges == InitPrivileges /\ [][NextPrivileges]_vars

\* the values NODE_ENV is started with; "" is the variable left unset
EnvValues == {"", "development", "production", "test"}

\* config.env
configEnv(e) == IF e = "" THEN "development" ELSE e

\* config.isProduction
isProduction(e) == e = "production"

\* config.jwt.secret
jwtSecret(p) ==
  IF p.JWT_SECRET = "" THEN "default-secret-change-in-production" ELSE p.JWT_SECRET

\* level() of the logger
level(e) ==
  LET env0 == IF configEnv(e) = "" THEN "development" ELSE configEnv(e)
  IN IF env0 = "development" THEN "debug" ELSE "warn"

\* the variables config requires in production that are missing
missingVars(p) ==
  {v \in {"MONGODB_URI", "JWT_SECRET"} : p[v] = ""}

\* the process before it has imported config, started with any of the
\* variables set or left unset
InitConfig ==
  /\ proc \in { [phase |-> "loading", JWT_SECRET |-> secret, MONGODB_URI |-> uri] :
                  secret \in {"", "s3cret"}, uri \in {"", "mongodb://db/app"} }
  /\ hits = [a \in Addresses |-> 0]
  /\ env \in EnvValues
  /\ gateRoles = {"admin"}
  /\ now = 0
  /\ users = {}
  /\ nextId = 1
  /\ products = {}
  /\ nextPid = 1
  /\ issued = {}
  /\ reqs = [c \in {"c1"} |-> IdleReq]

\* config.js is imported: the process exits or goes on to listen
LoadConfig ==
  /\ proc.phase = "loading"
  /\ proc' = [proc EXCEPT !.phase =
                IF isProduction(env) /\ missingVars(proc) # {} THEN "exited" ELSE "up"]
  /\ UNCHANGED <<hits, env, gateRoles, now, users, nextId, products, nextPid, issued, reqs>>

\* the process is listening
Serving == proc.phase = "up"

\* the process from its start: configuration, then register and GET /me
NextConfig ==
  \/ LoadConfig
  \/ Serving /\ \E c \in DOMAIN reqs, route \in {"register", "me"} : Start(c, route)
  \/ Serving /\ \E c \in DOMAIN reqs : Validate(c)
  \/ Serving /\ \E c \in DOMAIN reqs : RegisterFind(c)
  \/ Serving /\ \E c \in DOMAIN reqs : RegisterCreate(c)
  \/ Serving /\ \E c \in DOMAIN reqs : Protect(c)
  \/ Serving /\ \E c \in DOMAIN reqs : GetMe(c)

SpecConfig == InitConfig /\ [][NextConfig]_vars


\* ------------------------------------------------------------- the claims

\* the step that takes request c through protect
ProtectStep(c) == Stage(reqs[c]) = "protect" /\ reqs'[c] # reqs[c]

\* token t verifies at the present time and names an account that exists and is active
Admissible(t) ==
  /\ t # Undefined /\ t.sig = "signed" /\ now < t.exp
  /\ \E u \in users : u.id = t.id /\ u.isActive

\* C1: when protect reads a correctly signed, unexpired token whose id names an
\* existing active account, it calls the next stage with req.user set to that
\* account, field for field, without the password.
C1_ValidTokenResolvesAccount ==
  [][\A c \in DOMAIN reqs :
       (ProtectStep(c) /\ Admissible(reqs'[c].token)) =>
         /\ reqs'[c].pc = "run" /\ reqs'[c].at = reqs[c].at + 1
         /\ \E u \in users :
              /\ u.id = reqs'[c].token.id
              /\ DOMAIN reqs'[c].user = DOMAIN u \ {"password"}
              /\ \A f \in DOMAIN reqs'[c].user : reqs'[c].user[f] = u[f]]_vars

\* protect has passed the token of the second of two stored accounts on to getMe
C1_Witness ==
  \E c \in DOMAIN reqs :
    /\ Stage(reqs[c]) = "getMe" /\ Cardinality(users) = 2
    /\ reqs[c].token.id = 2 /\ reqs[c].user.id = 2
    /\ reqs[c].user.role = "admin"

\* C2: protect passes a request on only if its token is present, verifies and
\* names an account that exists and is active at the lookup; every other
\* request is answered 401 with no stage after protect entered.
C2_ProtectRejectsTheRest ==
  [][\A c \in DOMAIN reqs :
       ProtectStep(c) =>
         IF reqs'[c].pc = "run"
         THEN Admissible(reqs'[c].token)
         ELSE /\ reqs'[c].pc = "done" /\ reqs'[c].res.code = 401
              /\ reqs'[c].trace = <<"protect">>]_vars

\* an unexpired, correctly signed token of an account that was deactivated is refused
C2_Witness ==
  \E c \in DOMAIN reqs :
    /\ reqs[c].pc = "done" /\ reqs[c].res.code = 401
    /\ reqs[c].res.message = "User account is inactive"
    /\ reqs[c].token.sig = "signed" /\ now < reqs[c].token.exp
    /\ reqs[c].trace = <<"protect">>

\* C3: a token whose expiry lies in the past is refused with the Expired error,
\* which is not the answer a bad signature gets.
C3_ExpiredGetsExpiredError ==
  [][\A c \in DOMAIN reqs :
       (/\ ProtectStep(c) /\ reqs'[c].token # Undefined
        /\ reqs'[c].token.sig = "signed" /\ now >= reqs'[c].token.exp) =>
         /\ reqs'[c].pc = "done"
         /\ reqs'[c].res.message = handleJWTExpiredError.message
         /\ reqs'[c].res.message # "Not authorized to access this route"]_vars

\* C4: protect verifies the bearer token of the Authorization header when the
\* header carries one and the cookie otherwise: with a bearer token in the
\* header that token alone decides, and when the header yields no token the
\* cookie decides.
C4_HeaderElseCookie ==
  [][\A c \in DOMAIN reqs :
       ProtectStep(c) =>
         LET hdr == reqs[c].hdr
             passes == reqs'[c].pc = "run"
         IN IF Len(hdr) = 2 /\ hdr[1] = "Bearer"
            THEN passes <=> Admissible(hdr[2])
            ELSE passes <=> Admissible(reqs[c].cookie)]_vars

\* the step that takes request c through the role gate
AuthorizeStep(c) == Stage(reqs[c]) = "authorize" /\ reqs'[c] # reqs[c]

\* C5: a gate authorize(R) with R not empty calls the next stage iff the role of
\* the resolved identity is in R, and otherwise answers 403 with no handler run.
C5_GateIffMember ==
  [][\A c \in DOMAIN reqs :
       (AuthorizeStep(c) /\ gateRoles # {}) =>
         IF reqs[c].user.role \in gateRoles
         THEN reqs'[c].pc = "run" /\ reqs'[c].at = reqs[c].at + 1
         ELSE /\ reqs'[c].pc = "done" /\ reqs'[c].res.code = 403
              /\ reqs'[c].trace = <<"protect", "authorize">>]_vars

\* a gate that admits only 'user' has turned an administrator away
C5_Witness ==
  \E c \in DOMAIN reqs :
    /\ gateRoles = {"user"} /\ reqs[c].pc = "done" /\ reqs[c].res.code = 403
    /\ reqs[c].res.message = RoleMessage("admin")

\* C6 as claimed: a gate built with no roles, authorize(), passes every
\* resolved identity.
C6_EmptyGatePassesAll ==
  [][\A c \in DOMAIN reqs :
       (AuthorizeStep(c) /\ gateRoles = {}) => reqs'[c].pc = "run"]_vars

\* C6 as amended: a route that mounts no gate runs its handler for every
\* authenticated identity whatever its role, and a gate built with no roles
\* answers 403 to every identity.
C6_NoGateAdmitsEmptyGateRefuses ==
  [][\A c \in DOMAIN reqs :
       /\ (AuthorizeStep(c) /\ gateRoles = {}) =>
            /\ reqs'[c].pc = "done" /\ reqs'[c].res.code = 403
            /\ reqs'[c].trace = <<"protect", "authorize">>
       /\ (ProtectStep(c) /\ reqs[c].route \in {"me", "logout"} /\ reqs'[c].pc = "run") =>
            Stage(reqs'[c]) \in {"getMe", "logout"}
       /\ (Stage(reqs[c]) \in {"getMe", "logout"} /\ reqs'[c] # reqs[c]) =>
            /\ reqs'[c].res.code = 200
            /\ reqs'[c].trace \in {<<"protect", "getMe">>, <<"protect", "logout">>}]_vars

\* the empty gate has turned an administrator away
C6_Witness ==
  \E c \in DOMAIN reqs :
    /\ gateRoles = {} /\ reqs[c].pc = "done" /\ reqs[c].res.code = 403
    /\ reqs[c].res.message = RoleMessage("admin")
    /\ reqs[c].trace = <<"protect", "authorize">>

\* C7: an authenticated account with role 'user' on an admin product route is
\* answered 403, no product handler is entered and the products are unchanged.
C7_UserForbiddenOnAdminRoutes ==
  [][\A c \in DOMAIN reqs :
       (/\ reqs[c].pc = "run" /\ reqs[c].route \in AdminRoutes
        /\ reqs[c].user # Undefined /\ reqs[c].user.role = "user"
        /\ reqs'[c] # reqs[c]) =>
         /\ reqs'[c].pc = "done" /\ reqs'[c].res.code = 403
         /\ reqs'[c].trace = <<"protect", "authorize">>
         /\ products' = products]_vars

\* a 'user' account was refused DELETE on a product that exists and stays active
C7_Witness ==
  \E c \in DOMAIN reqs :
    /\ reqs[c].route = "deleteProduct" /\ reqs[c].pc = "done"
    /\ reqs[c].res.code = 403 /\ reqs[c].res.message = RoleMessage("user")
    /\ \E p \in products : p.id = reqs[c].pid /\ p.isActive

\* the chain each route declares, as the routers mount it
DeclaredOrder(route) ==
  CASE route = "register" -> <<"validate", "register">>
    [] route = "login" -> <<"validate", "login">>
    [] route = "me" -> <<"protect", "getMe">>
    [] route = "logout" -> <<"protect", "logout">>
    [] route = "createProduct" -> <<"protect", "authorize", "validate", "createProduct">>
    [] route = "updateProduct" -> <<"protect", "authorize", "updateProduct">>
    [] route = "deleteProduct" -> <<"protect", "authorize", "deleteProduct">>

\* the answer of a stage that fails
StageError(stage) ==
  CASE stage = "protect" -> 401 [] stage = "authorize" -> 403 [] stage = "validate" -> 400

\* C8: the stages of a request run in the declared order of its route; a
\* request that ends before its handler carries the error of the stage it
\* ended in, the first that failed; the handler is entered only after every
\* earlier stage; an unauthenticated POST /api/products with an invalid body
\* is answered 401.
C8_StagesInOrderFirstFailureWins ==
  \A c \in DOMAIN reqs :
    LET r == reqs[c]
        order == DeclaredOrder(r.route)
    IN r.pc # "idle" =>
         /\ Len(r.trace) <= Len(order)
         /\ r.trace = SubSeq(order, 1, Len(r.trace))
         /\ r.pc = "run" => r.at \in {Len(r.trace), Len(r.trace) + 1}
         /\ (r.pc = "done" /\ Len(r.trace) < Len(order)) =>
              r.res.code = StageError(r.trace[Len(r.trace)])
         /\ (/\ r.pc = "done" /\ r.route = "createProduct" /\ r.hdr = <<>>
             /\ r.cookie = Undefined) => r.res.code = 401

\* an unauthenticated POST /api/products with a negative price was answered 401
C8_Witness ==
  \E c \in DOMAIN reqs :
    /\ reqs[c].route = "createProduct" /\ reqs[c].pc = "done"
    /\ reqs[c].hdr = <<>> /\ reqs[c].body.price < 0
    /\ reqs[c].res.code = 401 /\ reqs[c].trace = <<"protect">>

\* the steps of register
RegisterFindStep(c) ==
  Stage(reqs[c]) = "register" /\ reqs[c].step = 0 /\ reqs'[c] # reqs[c]

RegisterCreateStep(c) ==
  Stage(reqs[c]) = "register" /\ reqs[c].step = 1 /\ reqs'[c] # reqs[c]

\* an account is stored under the case-normalised form of e-mail e
Registered(e) == \E u \in users : u.email = ToLowerCase(e)

\* C9 as claimed: registering with an e-mail that already has an account fails
\* with the message "email already exists", creates no account and issues no
\* token.
C9_DuplicateSaysEmailAlreadyExists ==
  [][\A c \in DOMAIN reqs :
       (RegisterFindStep(c) /\ Registered(reqs[c].body.email)) =>
         /\ reqs'[c].pc = "done"
         /\ reqs'[c].res.message = "email already exists"
         /\ reqs'[c].res.token = Undefined
         /\ users' = users /\ issued' = issued]_vars

\* C9 as amended: registering with an e-mail that already has an account
\* (compared after case normalisation) fails with status 400 and the message
\* "User already exists with this email", creates no account and issues no
\* token; a registration with an e-mail that has no account succeeds with 201,
\* one new account and a token.
C9_DuplicateRefusedFirstSucceeds ==
  [][\A c \in DOMAIN reqs :
       /\ (RegisterFindStep(c) /\ Registered(reqs[c].body.email)) =>
            /\ reqs'[c].pc = "done" /\ reqs'[c].res.code = 400
            /\ reqs'[c].res.message = "User already exists with this email"
            /\ reqs'[c].res.token = Undefined /\ reqs'[c].res.cookie = Undefined
            /\ users' = users /\ issued' = issued
       /\ (RegisterFindStep(c) /\ ~Registered(reqs[c].body.email)) =>
            reqs'[c].pc = "run" /\ reqs'[c].step = 1 /\ users' = users
       /\ (RegisterCreateStep(c) /\ ~Registered(reqs[c].body.email)) =>
            /\ reqs'[c].pc = "done" /\ reqs'[c].res.code = 201
            /\ reqs'[c].res.token \in issued'
            /\ \E u \in users' \ users :
                 /\ users' = users \cup {u}
                 /\ u.email = ToLowerCase(reqs[c].body.email)]_vars

\* John@Example.com was refused because john@example.com has an account
C9_Witness ==
  \E c \in DOMAIN reqs :
    /\ reqs[c].route = "register" /\ reqs[c].pc = "done"
    /\ reqs[c].body.email = "John@Example.com"
    /\ reqs[c].res.message = "User already exists with this email"
    /\ \E u \in users : u.email = "john@example.com"

\* C10: no two accounts share a case-normalised e-mail, and a registration
\* whose create meets an account made since its findByEmail check creates
\* nothing, issues no token and ends in the Conflict error (400, "email
\* already exists").
C10_RaceLoserGetsConflict ==
  [][/\ \A u, v \in users' : u.email = v.email => u = v
     /\ \A c \in DOMAIN reqs :
          (RegisterCreateStep(c) /\ Registered(reqs[c].body.email)) =>
            /\ users' = users /\ issued' = issued
            /\ reqs'[c].pc = "done" /\ reqs'[c].res.token = Undefined
            /\ reqs'[c].res.code = 400
            /\ reqs'[c].res.message = "email already exists"]_vars

\* the step that takes request c through login's lookup and checks
LoginFindStep(c) ==
  Stage(reqs[c]) = "login" /\ reqs[c].step = 0 /\ reqs'[c] # reqs[c]

\* the submitted password is not the password of an account with this e-mail
WrongPassword(body) ==
  LET u == FindByEmail(users, body.email)
  IN u = Undefined \/ ~Compare(Clear(body.password), u.password)

\* C11: a login with a wrong password is answered 401 "Invalid credentials"
\* whether or not an account has the submitted e-mail, and in every state of
\* that account (SpecLogin).
C11_FailedLoginSameAnswer ==
  [][\A c \in DOMAIN reqs :
       (LoginFindStep(c) /\ WrongPassword(reqs[c].body))
       => /\ reqs'[c].pc = "done"
          /\ reqs'[c].res.code = 401
          /\ reqs'[c].res.message = "Invalid credentials"]_vars

\* C12: a request that ends in an error leaves the accounts and the products
\* as they were: a step of a request writes to a collection only when it is
\* the step that answers with success, so a failed login does not touch
\* lastLogin and a rejected product mutation writes nothing (SpecAll).
C12_FailureWritesNothing ==
  [][\A c \in DOMAIN reqs :
       reqs'[c] # reqs[c]
       => \/ users' = users /\ products' = products
          \/ reqs'[c].pc = "done" /\ reqs'[c].res.status = "success"]_vars

\* a login refused with 401 for an account that exists and never logged in,
\* and a product mutation refused while a product is stored
C12_Witness ==
  \E c \in DOMAIN reqs :
    /\ reqs[c].pc = "done" /\ reqs[c].route = "login" /\ reqs[c].res.code = 401
    /\ \E u \in users : u.email = ToLowerCase(reqs[c].body.email) /\ u.lastLogin = <<>>
    /\ products # {}

\* the step that takes request c through login's save
LoginSaveStep(c) ==
  Stage(reqs[c]) = "login" /\ reqs[c].step = 1 /\ reqs'[c] # reqs[c]

\* C13: a successful login changes the lastLogin of the account that logged
\* in and nothing else: every other field of that account keeps the value
\* stored just before the save, also when the role or the active flag was
\* changed out of band after the login loaded the account, and every other
\* account is unchanged (SpecLogin).
C13_LoginWritesLastLoginOnly ==
  [][\A c \in DOMAIN reqs :
       (LoginSaveStep(c) /\ reqs'[c].res.code = 200)
       => /\ {u.id : u \in users'} = {u.id : u \in users}
          /\ \A u \in users :
               LET v == FindById(users', u.id)
               IN IF u.id = reqs[c].doc.id
                  THEN /\ v.lastLogin = <<now>>
                       /\ \A f \in DOMAIN u \ {"lastLogin"} : v[f] = u[f]
                  ELSE v = u]_vars

\* a login answered 200 from the account as loaded (role user, active) while
\* the stored account has been made admin or deactivated, and carries the
\* login's timestamp
C13_Witness ==
  \E c \in DOMAIN reqs :
    /\ reqs[c].pc = "done" /\ reqs[c].route = "login" /\ reqs[c].res.code = 200
    /\ \E u \in users :
         /\ u.id = reqs[c].res.user.id /\ u.lastLogin = <<now>>
         /\ u.role = "admin" /\ reqs[c].res.user.role = "user"
         /\ ~u.isActive

\* C14: the stored secret of every account is one bcrypt hash over a clear
\* password that passed registration, never the clear password and never a
\* hash of a hash, after any sequence of registrations and logins; and a
\* login with that password gets past the password check (SpecLogin).
C14_StoredSecretIsOneHash ==
  [][/\ \A u \in users' :
          /\ Len(u.password) = 2
          /\ u.password[1] = "$2a$12$"
          /\ IsStrongPassword(u.password[2])
     /\ \A c \in DOMAIN reqs :
          LET u == FindByEmail(users, reqs[c].body.email)
          IN (/\ LoginFindStep(c) /\ u # Undefined /\ u.isActive
              /\ Len(u.password) = 2 /\ reqs[c].body.password = u.password[2])
             => reqs'[c].pc = "run" /\ reqs'[c].step = 1]_vars

\* a login with the registration password passing the password check of an
\* account that an earlier login has already saved
C14_Witness ==
  \E c \in DOMAIN reqs :
    /\ Stage(reqs[c]) = "login" /\ reqs[c].step = 1
    /\ reqs[c].doc.lastLogin # <<>>
    /\ reqs[c].doc.password = Hash(Clear(reqs[c].body.password))

\* C15: no response and no req.user carries an account's password field:
\* neither the response itself, nor the user object in it, nor the token and
\* the cookie it sets, on any route, in success and in error, login included
\* although it loads the account with the password selected (SpecAll).
C15_NoSecretLeaves ==
  \A c \in DOMAIN reqs :
    LET r == reqs[c]
    IN /\ r.user # Undefined => "password" \notin DOMAIN r.user
       /\ r.res # Undefined =>
            /\ "password" \notin DOMAIN r.res
            /\ r.res.user # Undefined => "password" \notin DOMAIN r.res.user
            /\ r.res.token # Undefined => "password" \notin DOMAIN r.res.token
            /\ r.res.cookie # Undefined => "password" \notin DOMAIN r.res.cookie

\* a login answered 200 with a user object, from a document loaded with its
\* password
C15_Witness ==
  \E c \in DOMAIN reqs :
    /\ reqs[c].pc = "done" /\ reqs[c].route = "login" /\ reqs[c].res.code = 200
    /\ reqs[c].res.user # Undefined
    /\ \E u \in users : u.id = reqs[c].res.user.id /\ "password" \in DOMAIN u

\* C16: a verified token resolves to the account as stored when the request
\* is processed, not as it was when the token was issued: the identity
\* protect attaches is the stored account at that moment, and the gate
\* decides on the role of that identity, whatever role the token embeds
\* (SpecAll).
C16_StoredRoleDecides ==
  [][\A c \in DOMAIN reqs :
       /\ (ProtectStep(c) /\ reqs'[c].pc = "run")
          => reqs'[c].user = SelectNoPassword(FindById(users, reqs'[c].token.id))
       /\ AuthorizeStep(c)
          => IF reqs[c].user.role \in gateRoles
             THEN reqs'[c].pc = "run" /\ reqs'[c].at = reqs[c].at + 1
             ELSE reqs'[c].pc = "done" /\ reqs'[c].res.code = 403]_vars

\* a token issued to an administrator, presented after the account was made
\* a plain user again, is refused by the gate
C16_Witness ==
  \E c \in DOMAIN reqs :
    /\ reqs[c].pc = "done" /\ reqs[c].res.code = 403
    /\ reqs[c].trace = <<"protect", "authorize">>
    /\ reqs[c].token.sig = "signed" /\ reqs[c].token.role = "admin"
    /\ reqs[c].res.message = RoleMessage("user")

\* the step that answers the logout request of c
LogoutDone(c) ==
  reqs[c].pc = "run" /\ reqs[c].route = "logout" /\ reqs'[c].pc = "done"

\* C17: a client that has logged out and whose token is still good (signed,
\* unexpired, account active) logs out again with the same result, 200 and
\* the cookie overwritten with the placeholder, whether it sends the token
\* in the Authorization header or holds it in its cookie only (SpecLogout).
C17_LogoutAgainSucceeds ==
  [][\A c \in DOMAIN reqs :
       (LogoutDone(c) /\ reqs[c].logouts >= 1 /\ Admissible(reqs[c].held))
       => /\ reqs'[c].res.code = 200
          /\ reqs'[c].res.message = "Logged out successfully"
          /\ reqs'[c].res.cookie = NoneCookie]_vars

\* C18: logging out does not invalidate the token: a request that presents,
\* in the Authorization header, the token a completed logout was authenticated
\* with passes protect as that account, after any number of logouts, as long
\* as the token is unexpired and the account exists and is active; and the
\* logout handler writes nothing on the server (SpecLogout).
C18_TokenSurvivesLogout ==
  [][\A c \in DOMAIN reqs :
       /\ (/\ ProtectStep(c) /\ reqs[c].logouts >= 1
           /\ reqs[c].hdr = <<"Bearer", reqs[c].held>> /\ Admissible(reqs[c].held))
          => /\ reqs'[c].pc = "run" /\ reqs'[c].at = reqs[c].at + 1
             /\ reqs'[c].user.id = reqs[c].held.id
       /\ (Stage(reqs[c]) = "logout" /\ reqs'[c] # reqs[c])
          => UNCHANGED <<users, products, issued, now>>]_vars

\* GET /me answered 200 for the header token after MaxLogouts logouts with it
C18_Witness ==
  \E c \in DOMAIN reqs :
    /\ reqs[c].pc = "done" /\ reqs[c].route = "me" /\ reqs[c].res.code = 200
    /\ reqs[c].logouts = MaxLogouts
    /\ reqs[c].held # Undefined /\ reqs[c].hdr = <<"Bearer", reqs[c].held>>

\* the status code errorHandler gives an error that has none
StatusOf(err) == IF err.statusCode = 0 THEN 500 ELSE err.statusCode

C20_LookupFaultIsInternal ==
  [][\A c \in DOMAIN reqs :
       ProtectFault(c)
       => reqs'[c].res.code = 500 /\ reqs'[c].res.code # 401]_vars

\* the step on which the request of c arrives at the application
ArriveStep(c) == reqs[c].pc \in {"idle", "done"} /\ reqs'[c] # reqs[c]

\* C21: from one address, once AuthLimitMax requests to the auth routes have
\* been counted in the window, the next request to an auth route is refused
\* with "Too many login attempts, please try again later." before any stage of
\* the route runs (SpecLimit, whose requests all go to /api/auth/register and
\* /api/auth/login).
C21_AuthRoutesStrictLimit ==
  [][\A c \in DOMAIN reqs :
       (ArriveStep(c) /\ hits[Addr(c)] >= AuthLimitMax)
       => /\ reqs'[c].pc = "done" /\ reqs'[c].trace = <<>>
          /\ reqs'[c].res.message = "Too many login attempts, please try again later."]_vars

\* C22: every request to an /api route is counted against the one counter of
\* its address, whatever its route and connection, and against no other
\* address; while the counter of the window is below max the request goes on
\* to its route, from then on it is answered 429 before any stage runs; the
\* counter starts again at zero when the window has elapsed (SpecLimit).
C22_OneCounterPerAddress ==
  [][/\ \A c \in DOMAIN reqs :
          ArriveStep(c)
          => /\ hits' = [hits EXCEPT ![Addr(c)] = @ + 1]
             /\ IF hits[Addr(c)] < RateLimitMax
                THEN reqs'[c].pc = "run" /\ reqs'[c].at = 1 /\ reqs'[c].trace = <<>>
                ELSE /\ reqs'[c].pc = "done" /\ reqs'[c].trace = <<>>
                     /\ reqs'[c].res.code = 429
                     /\ reqs'[c].res.message = TooManyRequests.message
     /\ \A a \in Addresses :
          hits'[a] < hits[a] => hits'[a] = 0 /\ UNCHANGED reqs]_vars

\* one address over its limit through two connections and both routes, the
\* last request refused, while the other address is served
C22_Witness ==
  /\ hits["10.0.0.1"] > RateLimitMax /\ hits["10.0.0.2"] \in 1..RateLimitMax
  /\ reqs["c1"].pc = "done" /\ reqs["c1"].res.code = 429 /\ reqs["c1"].route = "login"
  /\ reqs["c2"].pc = "done" /\ reqs["c2"].res.code = 400 /\ reqs["c2"].route = "register"
  /\ reqs["c3"].pc = "run" /\ reqs["c3"].at = 2

\* the ids of the products stored
ProductIds(ps) == {p.id : p \in ps}

\* the ids of the products a response carries
Returned(res) ==
  IF "products" \in DOMAIN res THEN {res.products[i].id : i \in 1..Len(res.products)} ELSE {}

\* the step in which request c, on one of the given routes, is answered
Answered(c, routes) ==
  reqs[c].pc = "run" /\ reqs[c].route \in routes /\ reqs'[c].pc = "done"

\* the ids GET /api/products with no parameters lists over the store ps
Listed(ps) == ProductIds({p \in ps : Matches(p, buildQuery(NoQuery))})

\* what the step does to the store and puts in the answer to request c
SoftDeleteEffect(c) ==
  /\ ProductIds(products) \subseteq ProductIds(products')
  /\ (Answered(c, {"deleteProduct"}) /\ reqs'[c].res.code = 200) =>
       /\ ProductIds(products') = ProductIds(products)
       /\ ~FindProduct(products', reqs[c].pid).isActive
  /\ Answered(c, ReadRoutes) =>
       \A p \in products : ~p.isActive =>
         /\ p.id \notin Returned(reqs'[c].res)
         /\ (reqs[c].route = "getProduct" /\ reqs[c].pid = p.id) =>
              /\ reqs'[c].res.code = 404
              /\ reqs'[c].res.message = "Product not found"

\* every step of the product API has that effect
SoftDeleteStep == [][\A c \in DOMAIN reqs : SoftDeleteEffect(c)]_vars

\* C23: DELETE /api/products/:id keeps the record and sets isActive to false;
\* no step of the API makes the set of stored products smaller; a public read
\* (list, get by id, search) never returns an inactive product, and get by id
\* of one answers 404 'Product not found'; and from the DELETE on the product
\* stays out of what the reads return: a stored product that the list leaves
\* out is left out after every step
C23_SoftDelete ==
  [][/\ \A c \in DOMAIN reqs : SoftDeleteEffect(c)
     /\ \A id \in ProductIds(products) :
          id \notin Listed(products) => id \notin Listed(products')]_vars

\* the page or limit a query asks for: the number it writes if that is at
\* least 1, the default if it is missing, not a number, or zero
Asked(str, dflt) ==
  CASE str = "1" -> 1 [] str = "2" -> 2 [] str = "3" -> 3 [] str = "5" -> 5
    [] OTHER -> dflt

\* the filtered, sorted list of the products that match the query
FullList(query) ==
  Sorted({p \in products : Matches(p, buildQuery(query))}, SortOption(query.sort))

\* the answers to pages 1..k of the query with limit l over the present store, one after another
RECURSIVE PagesUpTo(_, _, _)
PagesUpTo(query, l, k) ==
  IF k = 0 THEN <<>>
  ELSE PagesUpTo(query, l, k - 1) \o SkipLimit(FullList(query), (k - 1) * l, l)

Satisfies(p, q) ==
  /\ p.isActive
  /\ q.category # "" => p.category = q.category
  /\ q.minPrice \in Numeric => p.price >= Num(q.minPrice)
  /\ q.maxPrice \in Numeric => p.price <= Num(q.maxPrice)
  /\ q.inStock = "true" => p.stock > 0
  /\ q.search # "" => TextMatch(p, q.search)

\* a comes before b under the documented sort key; newest first for any other
Before(a, b, sort) ==
  CASE sort = "priceAsc" -> a.price <= b.price
    [] sort = "priceDesc" -> a.price >= b.price
    [] sort = "nameAsc" -> NameRank(a.name) <= NameRank(b.name)
    [] sort = "nameDesc" -> NameRank(a.name) >= NameRank(b.name)
    [] sort = "oldest" -> a.id < b.id
    [] OTHER -> a.id > b.id

\* the step answers request c with a list of the products that satisfy its
\* query, counted in total, in the order its sort key asks for
ListedAsAsked(c) ==
  LET q == reqs[c].body
      res == reqs'[c].res
  IN /\ res.code = 200
     /\ "products" \in DOMAIN res
     /\ \A i \in 1..Len(res.products) :
          /\ res.products[i] \in products
          /\ Satisfies(res.products[i], q)
     /\ res.total = Cardinality({p \in products : Satisfies(p, q)})
     /\ \A i, j \in 1..Len(res.products) :
          i < j => Before(res.products[i], res.products[j], q.sort)

\* every GET /api/products whose sort key is absent, documented, or no
\* property of an object is answered with the list its query asks for
ListedForPlainKeys ==
  [][\A c \in DOMAIN reqs :
       (Answered(c, {"getProducts"}) /\ reqs[c].body.sort # "constructor") =>
         ListedAsAsked(c)]_vars

\* C25: every GET /api/products is answered with only products that are
\* active and satisfy every filter supplied (category, minPrice, maxPrice,
\* each bound alone and a bound of 0 included, stock > 0 for inStock 'true'),
\* in the order of the documented sort key, newest first when the key is
\* absent or unknown
C25_FiltersAndSort ==
  [][\A c \in DOMAIN reqs :
       Answered(c, {"getProducts"}) => ListedAsAsked(c)]_vars

\* C29: no step of the API makes an inactive (soft-deleted) product active
\* again, so that it stays hidden from the public reads
C29_DeletedStaysInactive ==
  [][\A p \in products :
       ~p.isActive => \A n \in products' : n.id = p.id => ~n.isActive]_vars

\* the answer of the 404 handler
IsRouteNotFound(res) == res.code = 404 /\ res.message = "Route <url> not found"

\* a request that matches no route and is not for the product router is
\* answered by the 404 handler, and so is one for the product router that
\* carries an administrator's token
NotFoundPastTheGate ==
  [][\A c \in DOMAIN reqs :
       /\ Answered(c, {"unmatched"}) => IsRouteNotFound(reqs'[c].res)
       /\ (Answered(c, {"unmatchedProduct"})
             /\ reqs[c].hdr = <<"Bearer", Sign(Admin, 0)>>) => IsRouteNotFound(reqs'[c].res)]_vars

\* C28: every request that matches no route, under /api/products or not,
\* with a token or without, is answered 404 'Route <url> not found'
C28_UnmatchedIsNotFound ==
  [][\A c \in DOMAIN reqs :
       Answered(c, {"unmatched", "unmatchedProduct"}) => IsRouteNotFound(reqs'[c].res)]_vars

\* in production a process started without JWT_SECRET never serves a request
\* and never signs a token
ExitsInProduction ==
  (isProduction(env) /\ proc.JWT_SECRET = "") =>
    /\ proc.phase \in {"loading", "exited"}
    /\ issued = {}
    /\ \A c \in DOMAIN reqs : reqs[c].pc = "idle"

\* C26: in every environment a process started without JWT_SECRET exits while
\* loading its configuration: it never serves a request, never signs a token
\* and never verifies one
C26_NoSecretNoTokens ==
  proc.JWT_SECRET = "" =>
    /\ proc.phase \in {"loading", "exited"}
    /\ issued = {}
    /\ \A c \in DOMAIN reqs : reqs[c].pc = "idle"

\* a process started without JWT_SECRET is serving and has signed a token
\* with the secret the configuration falls back to
SignedWithDefaultSecret ==
  /\ proc.JWT_SECRET = "" /\ Serving /\ issued # {}
  /\ jwtSecret(proc) = "default-secret-change-in-production"

\* with NODE_ENV unset, every error answered so far went out in the development form
DevelopmentAnswers ==
  \A c \in DOMAIN reqs :
    (reqs[c].pc = "done" /\ reqs[c].err # Undefined) =>
      reqs[c].res.stack

\* C27: with NODE_ENV unset, config.env is 'development', config.isDevelopment
\* is true, the logger takes its development level and the error handler
\* answers in its development form
C27_UnsetIsDevelopment ==
  env = "" =>
    /\ configEnv(env) = "development"
    /\ isDevelopment(env)
    /\ level(env) = "debug"
    /\ DevelopmentAnswers

\* with NODE_ENV unset, config.env is 'development' and the logger takes its
\* development level
UnsetLogsAsDevelopment ==
  env = "" => (configEnv(env) = "development" /\ level(env) = "debug")

====
